---------------------------- MODULE Spec2Model ----------------------------
(***************************************************************************)
(* The five single-run patch scripts of scripts/: fix_virtualization.py,   *)
(* fix_virtualization2.py, fix_virtualization3.py, fix_virtualization4.py  *)
(* and fix_profiling.py.  Each reads one file, applies a fixed list of     *)
(* text rules to the string in memory, and writes the file back.           *)
(*                                                                         *)
(* A file content is a sequence of tokens; every token stands for a fixed  *)
(* piece of text, and the string operations of the scripts (in, replace,   *)
(* re.sub, re.search, re.findall, slicing, strip, startswith) are computed *)
(* on the token sequence exactly as Python computes them on the text the   *)
(* tokens spell:                                                           *)
(*   a module name m   the text  name: "m",                                *)
(*   NL                one newline                                         *)
(*   I4                four spaces                                         *)
(*   TAB               one tab                                             *)
(*   EnFalse           the text  enabled: false,                           *)
(*   EnTrue            the text  enabled: true,                            *)
(*   X                 any other text (srcs: [...], a comment, ...)        *)
(*   Q                 one double quote                                    *)
(*   a prebuilt body   the text between the quotes of a reference, colon   *)
(*                     included (:microdroid_kernel_prebuilt-arm64)        *)
(*   SdkOpen, SdkEnabled, SdkRest   the pieces of the sdk block            *)
(***************************************************************************)
EXTENDS Integers, Sequences, FiniteSets, TLC

VARIABLES script, file, content, pc, todo, out, disabled_count,
          run, input1, orig, written1, last,
          ordRules, ordOrig, ordA, ordB, ordStep

vars == <<script, file, content, pc, todo, out, disabled_count,
          run, input1, orig, written1, last,
          ordRules, ordOrig, ordA, ordB, ordStep>>

runVars == <<script, file, content, pc, todo, out, disabled_count,
             run, input1, orig, written1, last>>

ordVars == <<ordRules, ordOrig, ordA, ordB, ordStep>>

---------------------------------------------------------------------------
(* Bounds of the model *)

\* longest starting content, in tokens, for the insert-after-anchor scripts
MaxLen == 4

\* longest starting content, in tokens, for the replace-literal scripts
MaxLenRepl == 5

\* longest starting content, in tokens, when two rules are applied in both orders
MaxLenOrd == 6

---------------------------------------------------------------------------
(* Tokens *)

NL == "NL"
I4 == "I4"
TAB == "TAB"
EnFalse == "enabled: false,"
EnTrue == "enabled: true,"
X == "X"
Q == "Q"
EmptyFile == ":empty_file"
SdkOpen == "sdk {"
SdkEnabled == "enabled: select(release_flag(...)),"
SdkRest == "name: profiling-module-sdk, apexes: [...], }"

\* str.strip() and the regex class \s remove these
Whitespace == {NL, I4, TAB}

\* the regex class [ \t]
Blank == {I4, TAB}

\* number of characters of a whitespace token
Width(tok) == IF tok = I4 THEN 4 ELSE 1

---------------------------------------------------------------------------
(* The rule lists of the scripts *)

modules_to_disable ==
    << "microdroid_kernel_signed",
       "microdroid_kernel_16k_signed",
       "microdroid_gki_kernel_signed",
       "microdroid_gki_kernel_16k_signed",
       "microdroid_kernel",
       "microdroid_kernel_16k",
       "microdroid_gki_kernel",
       "microdroid_gki_kernel_16k" >>

problematic_modules ==
    << "microdroid_kernel_signed",
       "microdroid_kernel_16k_signed",
       "microdroid_kernel",
       "microdroid_kernel_16k",
       "microdroid_gki-android15-6.6_kernel_signed",
       "microdroid_gki-android15-6.6_kernel_signed_supports_uefi_boot",
       "microdroid_gki-android15-6.6_kernel_signed-lz4",
       "microdroid_gki-android15-6.6_kernel",
       "microdroid_gki-android16-6.12_kernel_signed",
       "microdroid_gki-android16-6.12_kernel_signed_supports_uefi_boot",
       "microdroid_gki-android16-6.12_kernel_signed-lz4",
       "microdroid_gki-android16-6.12_kernel" >>

replacements ==
    << [old |-> <<Q, ":microdroid_kernel_prebuilt-arm64", Q>>,
        new |-> <<Q, EmptyFile, Q>>],
       [old |-> <<Q, ":microdroid_kernel_prebuilt-x86_64", Q>>,
        new |-> <<Q, EmptyFile, Q>>],
       [old |-> <<Q, ":microdroid_gki_kernel_prebuilts-android15-6.6-arm64", Q>>,
        new |-> <<Q, EmptyFile, Q>>],
       [old |-> <<Q, ":microdroid_gki_kernel_prebuilts-android15-6.6-x86_64", Q>>,
        new |-> <<Q, EmptyFile, Q>>],
       [old |-> <<Q, ":microdroid_gki_kernel_prebuilts-android16-6.12-arm64", Q>>,
        new |-> <<Q, EmptyFile, Q>>],
       [old |-> <<Q, ":microdroid_gki_kernel_prebuilts-android16-6.12-x86_64", Q>>,
        new |-> <<Q, EmptyFile, Q>>] >>

old_sdk == <<SdkOpen, SdkRest>>

new_sdk == <<SdkOpen, SdkEnabled, SdkRest>>

---------------------------------------------------------------------------
(* Python's string operations *)

Range(s) == {s[i] : i \in 1..Len(s)}

Min(S) == CHOOSE x \in S : \A y \in S : x <= y

\* p occurs in s starting at index i
OccursAt(s, p, i) ==
    /\ i >= 1
    /\ i + Len(p) - 1 <= Len(s)
    /\ \A k \in 1..Len(p) : s[i + k - 1] = p[k]

\* every index at which p occurs in s
Occurrences(s, p) == {i \in 1..Len(s) : OccursAt(s, p, i)}

\* str.find(p, from), 1-based; 0 when p does not occur
Find(s, p, from) ==
    LET at == {i \in Occurrences(s, p) : i >= from}
    IN  IF at = {} THEN 0 ELSE Min(at)

\* p in s
Contains(s, p) == Occurrences(s, p) # {}

\* s[from:].replace(old, new, count): occurrences are taken left to right and
\* never overlap; count = -1 replaces all of them
RECURSIVE ReplaceFrom(_, _, _, _, _)
ReplaceFrom(s, old, new, from, count) ==
    LET i == Find(s, old, from)
    IN  IF count = 0 \/ i = 0
        THEN SubSeq(s, from, Len(s))
        ELSE SubSeq(s, from, i - 1) \o new
                 \o ReplaceFrom(s, old, new, i + Len(old), count - 1)

\* s.replace(old, new)
ReplaceAll(s, old, new) == ReplaceFrom(s, old, new, 1, -1)

\* s.replace(old, new, 1)
ReplaceFirst(s, old, new) == ReplaceFrom(s, old, new, 1, 1)

\* index of the first token of s at or after i that is not in class, Len(s)+1 if none
RECURSIVE SkipClass(_, _, _)
SkipClass(s, i, class) ==
    IF i <= Len(s) /\ s[i] \in class THEN SkipClass(s, i + 1, class) ELSE i

\* number of characters of the whitespace tokens s[i..j-1]
RECURSIVE Chars(_, _, _)
Chars(s, i, j) == IF i >= j THEN 0 ELSE Width(s[i]) + Chars(s, i + 1, j)

---------------------------------------------------------------------------
(* Printed lines and rule outcomes *)

Line(text, arg) == [text |-> text, arg |-> arg]

\* what one rule did: the new content, the lines it printed, and the outcome
\* (applied, skipped, not-found) of the branch taken
Result(c, printed, outcome) ==
    [content |-> c, printed |-> printed, outcome |-> outcome]

---------------------------------------------------------------------------
(* fix_virtualization.py: one iteration of the loop over modules_to_disable *)

\* rf'(name: "{module}",)\n'
V1Pattern(module) == <<module, NL>>

\* rf'\1\n    enabled: false,'  (the newline the pattern consumed is put back
\* before the inserted text, none after it)
V1Replacement(module) == <<module, NL, I4, EnFalse>>

\* the guard, had it looked for enabled: false anywhere in the content
V1GuardAnywhere(c, module) ==
    /\ Contains(c, <<module>>)
    /\ ~Contains(c, <<EnFalse>>)

\* f'name: "{module}",' in content and
\* f'name: "{module}",\n    enabled: false' not in content
V1Guard(c, module) ==
    /\ Contains(c, <<module>>)
    /\ ~Contains(c, <<module, NL, I4, EnFalse>>)

V1Rule(c, module) ==
    IF V1Guard(c, module)
    THEN Result(ReplaceAll(c, V1Pattern(module), V1Replacement(module)),
                <<Line("Disabled", module)>>, "applied")
    ELSE Result(c, <<>>,
                IF Contains(c, <<module>>) THEN "skipped" ELSE "not-found")

---------------------------------------------------------------------------
(* fix_virtualization2.py: the scan and one iteration of the loop over matches *)

\* the module names the content alphabet uses; each starts with microdroid
NamesInContent == {"microdroid_kernel_signed", "microdroid_kernel"}

\* re.findall(r'name: "(microdroid[^"]+)",', content): the names in order of
\* occurrence, a name declared twice listed twice
V2FindAll(c) == SelectSeq(c, LAMBDA tok : tok \in NamesInContent)

\* re.search(rf'name: "{re.escape(module)}",\s*\n\s*enabled: false', content):
\* the name, a run of whitespace holding at least one newline, enabled: false
V2CheckAt(c, module, i) ==
    LET j == SkipClass(c, i + 1, Whitespace)
    IN  /\ c[i] = module
        /\ j <= Len(c)
        /\ c[j] = EnFalse
        /\ \E k \in (i + 1)..(j - 1) : c[k] = NL

V2Check(c, module) == \E i \in 1..Len(c) : V2CheckAt(c, module, i)

\* new = f'name: "{module}",\n    enabled: false,'
V2New(module) == <<module, NL, I4, EnFalse>>

V2Rule(c, module) ==
    IF ~V2Check(c, module)
    THEN IF Contains(c, <<module>>)
         THEN Result(ReplaceFirst(c, <<module>>, V2New(module)),
                     <<Line("Disabled", module)>>, "applied")
         ELSE Result(c, <<>>, "not-found")
    ELSE Result(c, <<>>, "skipped")

---------------------------------------------------------------------------
(* fix_virtualization3.py: one iteration of the loop over problematic_modules *)

\* check_after = content[match.end():match.end()+50]
CheckWindow == 50

\* len('enabled:')
EnabledLen == 8

\* the search, had the pattern matched the name line of any module
V3SearchAnyName(c, module) ==
    LET at == {i \in 1..Len(c) : /\ c[i] \in NamesInContent
                                 /\ OccursAt(c, <<c[i], NL>>, i)
                                 /\ i + 2 <= Len(c)
                                 /\ c[i + 2] \in Blank}
    IN  IF at = {} THEN 0 ELSE Min(at)

\* re.search(rf'(name: "{re.escape(module)}",\n)([ \t]+)', content).start():
\* the leftmost name line whose next line starts with a space or a tab; 0 if none
V3Search(c, module) ==
    LET at == {i \in 1..Len(c) : /\ OccursAt(c, <<module, NL>>, i)
                                 /\ i + 2 <= Len(c)
                                 /\ c[i + 2] \in Blank}
    IN  IF at = {} THEN 0 ELSE Min(at)

\* match.end(): [ \t]+ is greedy, the match ends where the run of blanks ends
V3MatchEnd(c, start) == SkipClass(c, start + 2, Blank)

\* indent = match.group(2): the blanks that begin the line AFTER the name line
V3Indent(c, start) == SubSeq(c, start + 2, V3MatchEnd(c, start) - 1)

\* the check, had it sliced from the end of group 1 and not stripped
V3HasEnabledUnstripped(c, start) == c[start + 2] \in {EnFalse, EnTrue}

\* check_after.strip().startswith('enabled:'): the first non-whitespace text
\* after the match is enabled: and lies within the 50 characters sliced
V3HasEnabled(c, start) ==
    LET e == V3MatchEnd(c, start)
        j == SkipClass(c, e, Whitespace)
    IN  /\ j <= Len(c)
        /\ c[j] \in {EnFalse, EnTrue}
        /\ Chars(c, e, j) + EnabledLen <= CheckWindow

\* replacement = f'{match.group(1)}{indent}enabled: false,\n{indent}'
V3Replacement(module, indent) ==
    <<module, NL>> \o indent \o <<EnFalse, NL>> \o indent

V3Rule(c, module) ==
    LET start == V3Search(c, module)
    IN  IF start # 0
        THEN LET indent == V3Indent(c, start)
                 full_match == <<module, NL>> \o indent
             IN  IF ~V3HasEnabled(c, start)
                 THEN Result(ReplaceFirst(c, full_match,
                                          V3Replacement(module, indent)),
                             <<Line("Disabled", module)>>, "applied")
                 ELSE Result(c, <<Line("Already has enabled", module)>>,
                             "skipped")
        ELSE Result(c, <<Line("Not found", module)>>, "not-found")

---------------------------------------------------------------------------
(* fix_virtualization4.py: one iteration of the loop over replacements *)

V4Rule(c, r) ==
    IF Contains(c, r.old)
    THEN Result(ReplaceAll(c, r.old, r.new),
                <<Line("Replaced", r.old[2])>>, "applied")
    ELSE Result(c, <<>>, "not-found")

---------------------------------------------------------------------------
(* fix_profiling.py: content = content.replace(old_sdk, new_sdk) *)

ProfilingRule(c) ==
    Result(ReplaceAll(c, old_sdk, new_sdk), <<>>,
           IF Contains(c, old_sdk) THEN "applied" ELSE "not-found")

---------------------------------------------------------------------------
(* The run of one script: read, apply the rules in list order, write back *)

V1 == "fix_virtualization.py"
V2 == "fix_virtualization2.py"
V3 == "fix_virtualization3.py"
V4 == "fix_virtualization4.py"
Profiling == "fix_profiling.py"

InsertScripts == {V1, V2, V3}
Scripts == {V1, V2, V3, V4, Profiling}

SeqsUpTo(S, n) == UNION {[1..k -> S] : k \in 0..n}

InsertTokens == NamesInContent \cup {NL, I4, TAB, EnFalse, EnTrue, X}

\* the prebuilt references the content alphabet uses: the first two of replacements
BodiesInContent == {replacements[1].old[2], replacements[2].old[2]}

ReplaceTokens == BodiesInContent \cup {Q, EmptyFile, X}

SdkTokens == {SdkOpen, SdkEnabled, SdkRest, X}

\* the starting contents of the target file of script s
Contents(s) ==
    IF s \in InsertScripts THEN SeqsUpTo(InsertTokens, MaxLen)
    ELSE IF s = V4 THEN SeqsUpTo(ReplaceTokens, MaxLenRepl)
    ELSE SeqsUpTo(SdkTokens, MaxLenRepl)

File(data) == [exists |-> TRUE, data |-> data]

NoFile == [exists |-> FALSE, data |-> <<>>]

\* no rule has run yet in this run
NoStep == [rule |-> "", before |-> <<>>, after |-> <<>>,
           printed |-> <<>>, outcome |-> "none"]

Step(rule, before, r) ==
    [rule |-> rule, before |-> before, after |-> r.content,
     printed |-> r.printed, outcome |-> r.outcome]

\* the rule list the loop of script s iterates over (V2's is found by its scan)
RuleList(s) ==
    IF s = V1 THEN modules_to_disable
    ELSE IF s = V3 THEN problematic_modules
    ELSE IF s = V4 THEN replacements
    ELSE <<>>

InitRun ==
    /\ script \in Scripts
    /\ file \in {File(c) : c \in Contents(script)} \cup {NoFile}
    /\ content = <<>>
    /\ pc = "read"
    /\ todo = <<>>
    /\ out = <<>>
    /\ disabled_count = 0
    /\ run = 1
    /\ input1 = file
    /\ orig = file
    /\ written1 = <<>>
    /\ last = NoStep

OrdIdle ==
    /\ ordRules = <<>>
    /\ ordOrig = <<>>
    /\ ordA = <<>>
    /\ ordB = <<>>
    /\ ordStep = 0

Init == InitRun /\ OrdIdle

\* with open(filepath, "r") as f: content = f.read()
Read ==
    /\ pc = "read"
    /\ file.exists
    /\ content' = file.data
    /\ todo' = RuleList(script)
    /\ pc' = IF script = V2 THEN "findall"
             ELSE IF script = Profiling THEN "replace" ELSE "loop"
    /\ UNCHANGED <<script, file, out, disabled_count, run, input1, orig,
                   written1, last>>
    /\ UNCHANGED ordVars

\* open(filepath, "r") raises (no such file, no permission): the run aborts
ReadFail ==
    /\ pc = "read"
    /\ pc' = "failed"
    /\ UNCHANGED <<script, file, content, todo, out, disabled_count, run,
                   input1, orig, written1, last>>
    /\ UNCHANGED ordVars

\* matches = re.findall(pattern, content); print(f"Found {len(matches)} ...")
\* disabled_count = 0
FindAll ==
    /\ pc = "findall"
    /\ todo' = V2FindAll(content)
    /\ out' = Append(out, Line("Found", Len(V2FindAll(content))))
    /\ disabled_count' = 0
    /\ pc' = IF V2FindAll(content) = <<>> THEN "open" ELSE "loop"
    /\ UNCHANGED <<script, file, content, run, input1, orig, written1, last>>
    /\ UNCHANGED ordVars

\* one iteration of the for loop of script s with rule result r
LoopStep(rule, r) ==
    /\ content' = r.content
    /\ out' = out \o r.printed
    /\ last' = Step(rule, content, r)
    /\ todo' = Tail(todo)
    /\ pc' = IF Tail(todo) = <<>> THEN "open" ELSE "loop"
    /\ UNCHANGED <<script, file, run, input1, orig, written1>>
    /\ UNCHANGED ordVars

LoopV1 ==
    /\ pc = "loop"
    /\ script = V1
    /\ LoopStep(Head(todo), V1Rule(content, Head(todo)))
    /\ UNCHANGED disabled_count

LoopV2 ==
    /\ pc = "loop"
    /\ script = V2
    /\ LET r == V2Rule(content, Head(todo))
       IN  /\ LoopStep(Head(todo), r)
           /\ disabled_count' = IF r.outcome = "applied"
                                THEN disabled_count + 1 ELSE disabled_count

LoopV3 ==
    /\ pc = "loop"
    /\ script = V3
    /\ LoopStep(Head(todo), V3Rule(content, Head(todo)))
    /\ UNCHANGED disabled_count

LoopV4 ==
    /\ pc = "loop"
    /\ script = V4
    /\ LoopStep(Head(todo).old[2], V4Rule(content, Head(todo)))
    /\ UNCHANGED disabled_count

\* content = content.replace(old_sdk, new_sdk)
ReplaceSdk ==
    /\ pc = "replace"
    /\ LET r == ProfilingRule(content)
       IN  /\ content' = r.content
           /\ last' = Step("profiling-module-sdk", content, r)
    /\ pc' = "open"
    /\ UNCHANGED <<script, file, todo, out, disabled_count, run, input1, orig,
                   written1>>
    /\ UNCHANGED ordVars

\* open(filepath, "w"): the file is created or truncated to nothing
OpenWrite ==
    /\ pc = "open"
    /\ file' = File(<<>>)
    /\ pc' = "write"
    /\ UNCHANGED <<script, content, todo, out, disabled_count, run, input1,
                   orig, written1, last>>
    /\ UNCHANGED ordVars

\* open(filepath, "w") raises (no permission, read-only file system)
OpenWriteFail ==
    /\ pc = "open"
    /\ pc' = "failed"
    /\ UNCHANGED <<script, file, content, todo, out, disabled_count, run,
                   input1, orig, written1, last>>
    /\ UNCHANGED ordVars

\* the line(s) printed after the with block of script s
FinalLines(s, count) ==
    IF s = V2 THEN <<Line("Total disabled", count)>>
    ELSE IF s = Profiling THEN <<Line("Fixed", "profiling-module-sdk")>>
    ELSE <<Line("Done!", "")>>

\* f.write(content), the file closed, the final line printed
WriteBack ==
    /\ pc = "write"
    /\ file' = File(content)
    /\ out' = out \o FinalLines(script, disabled_count)
    /\ written1' = IF run = 1 THEN content ELSE written1
    /\ pc' = "done"
    /\ UNCHANGED <<script, content, todo, disabled_count, run, input1, orig, last>>
    /\ UNCHANGED ordVars

\* f.write(content) or the flush at close raises (disk full, I/O error): the
\* truncated file holds whatever part of the content reached it
WriteFail ==
    /\ pc = "write"
    /\ \E k \in 0..Len(content) :
          /\ k < Len(content) \/ k = 0
          /\ file' = File(SubSeq(content, 1, k))
    /\ pc' = "failed"
    /\ UNCHANGED <<script, content, todo, out, disabled_count, run, input1,
                   orig, written1, last>>
    /\ UNCHANGED ordVars

\* the script is run once more on the file it wrote
Rerun ==
    /\ pc = "done"
    /\ run = 1
    /\ run' = 2
    /\ orig' = file
    /\ content' = <<>>
    /\ todo' = <<>>
    /\ out' = <<>>
    /\ disabled_count' = 0
    /\ last' = NoStep
    /\ pc' = "read"
    /\ UNCHANGED <<script, file, input1, written1>>
    /\ UNCHANGED ordVars

Next ==
    \/ Read
    \/ ReadFail
    \/ FindAll
    \/ LoopV1
    \/ LoopV2
    \/ LoopV3
    \/ LoopV4
    \/ ReplaceSdk
    \/ OpenWrite
    \/ OpenWriteFail
    \/ WriteBack
    \/ WriteFail
    \/ Rerun

Spec == Init /\ [][Next]_vars

---------------------------------------------------------------------------
(* Two rules of one list applied to the same content in both orders *)

OrdScripts == {V1, V3, V4}

OrdTokens == NamesInContent \cup {NL, I4, EnFalse, X}

\* the content a rule of script s leaves
Apply(s, c, rule) ==
    IF s = V1 THEN V1Rule(c, rule).content
    ELSE IF s = V3 THEN V3Rule(c, rule).content
    ELSE V4Rule(c, rule).content

\* is the anchor token of rule among the tokens contents are drawn from
InAlphabet(s, rule) ==
    IF s = V4 THEN rule.old[2] \in BodiesInContent ELSE rule \in NamesInContent

\* pairs of different rules of the list of s, earlier rule first; a rule whose
\* anchor no content holds changes nothing and is left out
RulePairs(s) ==
    LET list == RuleList(s)
        idx == {k \in 1..Len(list) : InAlphabet(s, list[k])}
    IN  {<<list[p[1]], list[p[2]]>> : p \in {q \in idx \X idx : q[1] < q[2]}}

RunIdle ==
    /\ file = NoFile
    /\ content = <<>>
    /\ pc = "idle"
    /\ todo = <<>>
    /\ out = <<>>
    /\ disabled_count = 0
    /\ run = 0
    /\ input1 = NoFile
    /\ orig = NoFile
    /\ written1 = <<>>
    /\ last = NoStep

InitOrd ==
    /\ script \in OrdScripts
    /\ ordRules \in RulePairs(script)
    /\ ordOrig \in IF script = V4 THEN SeqsUpTo(ReplaceTokens, MaxLenOrd)
                   ELSE SeqsUpTo(OrdTokens, MaxLenOrd)
    /\ ordA = ordOrig
    /\ ordB = ordOrig
    /\ ordStep = 0
    /\ RunIdle

\* the first rule of each order
OrdFirst ==
    /\ ordStep = 0
    /\ ordA' = Apply(script, ordA, ordRules[1])
    /\ ordB' = Apply(script, ordB, ordRules[2])
    /\ ordStep' = 1
    /\ UNCHANGED <<ordRules, ordOrig>>
    /\ UNCHANGED runVars

\* the second rule of each order, on the output of the first
OrdSecond ==
    /\ ordStep = 1
    /\ ordA' = Apply(script, ordA, ordRules[2])
    /\ ordB' = Apply(script, ordB, ordRules[1])
    /\ ordStep' = 2
    /\ UNCHANGED <<ordRules, ordOrig>>
    /\ UNCHANGED runVars

NextOrd == OrdFirst \/ OrdSecond

SpecOrd == InitOrd /\ [][NextOrd]_vars

---------------------------------------------------------------------------
(* Vocabulary of the properties *)

\* the text a rule looks for: the name line, the old literal, the old sdk block
AnchorOf(s, rule) ==
    IF s \in InsertScripts THEN <<rule>>
    ELSE IF s = V4 THEN <<Q, rule, Q>>
    ELSE old_sdk

\* every anchor the rules of a run of s on content c look for
AnchorsOf(s, c) ==
    IF s = V1 THEN {<<m>> : m \in Range(modules_to_disable)}
    ELSE IF s = V2 THEN {<<m>> : m \in Range(V2FindAll(c))}
    ELSE IF s = V3 THEN {<<m>> : m \in Range(problematic_modules)}
    ELSE IF s = V4 THEN {r.old : r \in Range(replacements)}
    ELSE {old_sdk}

\* a rule has run in this run of the script
RuleRan == last.outcome # "none"

Printed(text) == \E k \in 1..Len(last.printed) : last.printed[k].text = text

\* how many times token tok occurs in c
Count(c, tok) == Cardinality({i \in 1..Len(c) : c[i] = tok})

\* the name line at index i of c is followed, after whitespace that holds a
\* newline, by enabled: false
DisabledAt(c, i) ==
    LET j == SkipClass(c, i + 1, Whitespace)
    IN  /\ j <= Len(c)
        /\ c[j] = EnFalse
        /\ \E k \in (i + 1)..(j - 1) : c[k] = NL

\* some declaration of module m in c is followed by enabled: false
Disabled(c, m) == \E i \in 1..Len(c) : c[i] = m /\ DisabledAt(c, i)

\* index where the run of blanks that ends just before index i begins
RECURSIVE BlanksBefore(_, _)
BlanksBefore(c, i) ==
    IF i > 1 /\ c[i - 1] \in Blank THEN BlanksBefore(c, i - 1) ELSE i

\* the name line of m is alone on its line at index i of c: only blanks before
\* it on the line, a newline right after it
NameLineAt(c, m, i) ==
    /\ c[i] = m
    /\ i + 1 <= Len(c)
    /\ c[i + 1] = NL
    /\ BlanksBefore(c, i) = 1 \/ c[BlanksBefore(c, i) - 1] = NL

\* the leading whitespace W of the line of index i
LeadingBlanks(c, i) == SubSeq(c, BlanksBefore(c, i), i - 1)

---------------------------------------------------------------------------
(* C1: a second run of fix_virtualization.py, fix_virtualization2.py or
   fix_virtualization3.py on the content the first run wrote writes exactly
   that content again: it inserts no further line and changes nothing. *)
InsertIdempotent ==
    (script \in InsertScripts /\ run = 2 /\ pc = "done") =>
        file.data = written1

\* a second run has finished after a first run that inserted something
InsertIdempotentWitness ==
    /\ script \in InsertScripts
    /\ run = 2
    /\ pc = "done"
    /\ written1 # input1.data
    /\ Count(written1, EnFalse) > Count(input1.data, EnFalse)

(* C2: the content one run of fix_virtualization4.py or fix_profiling.py
   writes holds no old literal, and a second run writes the same content. *)
ReplaceIdempotent ==
    (script \in {V4, Profiling} /\ run = 2 /\ pc = "done") =>
        /\ \A a \in AnchorsOf(script, written1) : ~Contains(written1, a)
        /\ file.data = written1

(* C5: a run aborted by an I/O failure leaves the target file exactly as it
   was before the run. *)
AbortLeavesFile == (pc = "failed") => (file = orig)

(* C8: after a run of fix_virtualization2.py every declaration of a
   microdroid module in the written content is followed by enabled: false. *)
AllMicrodroidDisabled ==
    (script = V2 /\ pc = "done") =>
        \A i \in 1..Len(file.data) :
            file.data[i] \in NamesInContent => DisabledAt(file.data, i)

(* C9: an insertion rule is skipped as already present, although the name
   line of its module occurs, only when a declaration of the module is
   followed by enabled: false. *)
SkippedOnlyWhenDisabled ==
    (script \in InsertScripts /\ last.outcome = "skipped") =>
        Disabled(last.after, last.rule)

(* C10: Disabled: M is printed for a rule exactly when the rule changed the
   content, the content then holds the name line of M followed by
   enabled: false, and Total disabled of fix_virtualization2.py is the number
   of enabled: false, lines the run inserted. *)
ReportFaithful ==
    /\ (script \in InsertScripts /\ RuleRan) =>
           /\ Printed("Disabled") <=> (last.after # last.before)
           /\ Printed("Disabled") => Disabled(last.after, last.rule)
    /\ (script = V2 /\ pc = "done") =>
           /\ out[Len(out)] = Line("Total disabled", disabled_count)
           /\ disabled_count =
                  Count(file.data, EnFalse) - Count(orig.data, EnFalse)

(* C3: applied to a content whose only name line of M is followed by a
   newline and by a property other than enabled:, an insertion rule yields
   the original with exactly one whole line enabled: false, (its own newline
   included) inserted right after the name line, nothing else changed. *)
InsertsOneWholeLine ==
    \A i \in 1..Len(last.before) :
        ( /\ script \in InsertScripts
          /\ RuleRan
          /\ Count(last.before, last.rule) = 1
          /\ OccursAt(last.before, <<last.rule, NL>>, i)
          /\ LET j == SkipClass(last.before, i + 2, Blank)
             IN  j <= Len(last.before) /\ last.before[j] = X )
        => LET k == SkipClass(last.after, i + 2, Blank)
           IN  last.after = SubSeq(last.before, 1, i + 1)
                                \o SubSeq(last.after, i + 2, k - 1)
                                \o <<EnFalse, NL>>
                                \o SubSeq(last.before, i + 2, Len(last.before))

(* C4: the enabled: false, line an insertion rule inserts after a name line
   with leading whitespace W has leading whitespace exactly W. *)
IndentPreserved ==
    \A i \in 1..Len(last.before) :
        ( /\ script \in InsertScripts
          /\ last.outcome = "applied"
          /\ Count(last.before, last.rule) = 1
          /\ NameLineAt(last.before, last.rule, i) )
        => OccursAt(last.after,
                    <<last.rule, NL>> \o LeadingBlanks(last.before, i)
                        \o <<EnFalse>>,
                    i)

(* C6: a rule whose anchor does not occur in the content leaves the content
   unchanged, its outcome is not-found (fix_virtualization3.py prints
   Not found: M, no script prints Disabled: or Replaced:), and a run in which
   no rule's anchor occurs writes back exactly the content it read. *)
NoOpOnMissingAnchor ==
    /\ (RuleRan /\ ~Contains(last.before, AnchorOf(script, last.rule))) =>
           /\ last.after = last.before
           /\ last.outcome = "not-found"
           /\ ~Printed("Disabled")
           /\ ~Printed("Replaced")
           /\ script = V3 => last.printed = <<Line("Not found", last.rule)>>
    /\ (pc = "done"
            /\ \A a \in AnchorsOf(script, orig.data) : ~Contains(orig.data, a)) =>
           file.data = orig.data

\* a run of fix_virtualization3.py on a non-empty content that holds none of
\* its anchors has written the file back
NoOpOnMissingAnchorWitness ==
    /\ script = V3
    /\ pc = "done"
    /\ RuleRan
    /\ orig.data # <<>>
    /\ \A a \in AnchorsOf(script, orig.data) : ~Contains(orig.data, a)
    /\ ~Contains(last.before, AnchorOf(script, last.rule))
    /\ last.printed = <<Line("Not found", last.rule)>>

\* the index sets of the text a rule matches in c
Regions(s, c, rule) ==
    IF s = V1
    THEN {i..(i + 1) : i \in Occurrences(c, V1Pattern(rule))}
    ELSE IF s = V3
    THEN IF V3Search(c, rule) = 0 THEN {}
         ELSE {V3Search(c, rule)..(V3MatchEnd(c, V3Search(c, rule)) - 1)}
    ELSE {i..(i + Len(rule.old) - 1) : i \in Occurrences(c, rule.old)}

\* no text matched by the one rule shares a position with text matched by the other
Disjoint(s, c, r1, r2) ==
    \A a \in Regions(s, c, r1), b \in Regions(s, c, r2) : a \cap b = {}

(* C7: two rules of one list whose matched text regions do not overlap in
   the content yield the same final content in either order. *)
OrderIndependent ==
    (ordStep = 2 /\ Disjoint(script, ordOrig, ordRules[1], ordRules[2])) =>
        ordA = ordB

\* both orders are done, and each of the two disjoint rules changes the content
OrderIndependentWitness ==
    /\ ordStep = 2
    /\ script = V3
    /\ Disjoint(script, ordOrig, ordRules[1], ordRules[2])
    /\ Apply(script, ordOrig, ordRules[1]) # ordOrig
    /\ Apply(script, ordOrig, ordRules[2]) # ordOrig
    /\ ordA # Apply(script, ordOrig, ordRules[1])
    /\ ordA # Apply(script, ordOrig, ordRules[2])

===========================================================================
